---- MODULE Spec2Model ----
(***************************************************************************)
(* Model of the ContractSizeChecker React component of sizoor.              *)
(*                                                                         *)
(* src/packages/nextjs/components/ContractSizeChecker.tsx holds two         *)
(* versions of the component: Variant A (lines 1-360: percentage only,      *)
(* history persisted in localStorage) and Variant B (lines 362-647:         *)
(* percentage and optimization score, no history).                         *)
(*                                                                         *)
(* Numbers.  The code computes in IEEE doubles.  The model computes the     *)
(* same expressions exactly, in fixed point: a quantity q (KB, percent,     *)
(* score) is the integer q * Unit.  Unit is chosen so that every division   *)
(* the code performs (by 1024, 5, 15, 80, 28, 128) is exact on the byte     *)
(* counts the model uses, so x \div k below is the real quotient.           *)
(*                                                                         *)
(* Strings.  An address is modelled by what the code reads of it: its       *)
(* length, and its identity up to letter case (id, upper).  A bytecode      *)
(* string is modelled by its length (0: an absent or empty result,          *)
(* 2: "0x", 2 + 2n: n bytes of code).                                      *)
(*                                                                         *)
(* Stored text.  The localStorage item is Absent or a text, modelled by    *)
(* what JSON.parse makes of it: [json |-> "array", items |-> ...] is the    *)
(* text of an array, "unparseable" a text JSON.parse throws on, "empty"     *)
(* the empty string, "null", "object" and "string" the texts of such JSON   *)
(* values.  A value of the history state that is no array (setHistory of    *)
(* a parsed non-array) is the one-element sequence NotArray(kind).          *)
(***************************************************************************)
EXTENDS Integers, Sequences, FiniteSets, TLC

VARIABLES
    variant,          \* "A" or "B": which version of the component is mounted
    publicClient,     \* TRUE iff usePublicClient() returned a client
    addresses,        \* environment: the addresses the user may type
    bytecodes,        \* environment: the bytecode lengths getCode may return
    now,              \* environment: the value Date.now() returns
    contractAddress,  \* useState: the text of the input
    contractSize,     \* useState: the displayed report, or NullReport
    isLoading,        \* useState
    error,            \* useState: the displayed message, or NoError
    history,          \* useState (Variant A): sequence of HistoryItem
    showAnimation,    \* useState (Variant A)
    stored,           \* localStorage item "contractSizeHistory" (Variant A)
    inflight,         \* getCode calls awaiting the provider, with their closures
    phase             \* "mounted", "unmounted", or "crashed" (a render threw)

vars == <<variant, publicClient, addresses, bytecodes, now, contractAddress,
          contractSize, isLoading, error, history, showAnimation, stored, inflight,
          phase>>

\* ------------------------------------------------------------------ bounds

\* Date.now() takes the values 0..MaxNow.
MaxNow == 1
\* Addresses 1..NumIds can be typed in the interactive specification.
NumIds == 2
\* The byte counts sampled around each band edge: edge - EdgeDelta .. edge + EdgeDelta.
EdgeDelta == 2
\* The largest sampled size, in KB over the upper limit.
OverKB == 12

\* ------------------------------------------------------- program constants

lowerLimit == 100
upperLimit == 128
AddressLength == 42
HistoryLimit == 10

\* ------------------------------------------------------------- fixed point

Unit == 1024 * 13440

\* ---------------------------------------------------------------- strings

NoError == "null"
NoClientMessage == "No public client found"
NoContractMessage == "No contract found at this address"
FetchErrorMessage == "Error fetching contract bytecode"

InvalidAddressMessage(v) ==
    IF v = "A" THEN "Please enter a valid EVM address"
               ELSE "Please enter a valid Ethereum address"

\* The messages a failing provider call carries; "" is an Error without message.
ProviderMessages == {"RPC request failed", ""}

\* ---------------------------------------------------------------- values

NullReport == [null |-> TRUE]
Absent == [absent |-> TRUE]

EmptyAddress == [id |-> 0, upper |-> FALSE, len |-> 0]

\* String.prototype.toLowerCase on an address
toLowerCase(a) == [a EXCEPT !.upper = FALSE]

\* ------------------------------------------------------------ size, report

\* const sizeInBytes = (bytecode.length - 2) / 2; const sizeInKB = sizeInBytes / 1024
SizeInKB(bytecode) == ((bytecode - 2) \div 2) * (Unit \div 1024)

\* if (!bytecode || bytecode === "0x") throw ...
HasCode(bytecode) == bytecode # 0 /\ bytecode # 2

\* Variant A: percentageOfLimit = (sizeInKB / upperLimit) * 100, and the report
ReportA(bytecode) ==
    LET sizeInKB == SizeInKB(bytecode)
    IN  [size |-> sizeInKB,
         percentageOfLimit |-> (sizeInKB \div upperLimit) * 100]

\* Variant B, sizeInKB < 5: optimizationScore = 5 + (sizeInKB / 5) * 5
ScoreTiny(sizeInKB) == 5 * Unit + (sizeInKB \div 5) * 5

\* Variant B, 5 <= sizeInKB < 20: optimizationScore = 10 + ((sizeInKB - 5) / 15) * 15
ScoreSmall(sizeInKB) == 10 * Unit + ((sizeInKB - 5 * Unit) \div 15) * 15

\* mutant: the band ends at 75 instead of 78
ScoreMediumTo75(sizeInKB) == 25 * Unit + ((sizeInKB - 20 * Unit) \div 80) * 50

\* Variant B, 20 <= sizeInKB <= 100: optimizationScore = 25 + ((sizeInKB - 20) / 80) * 53
ScoreMedium(sizeInKB) == 25 * Unit + ((sizeInKB - 20 * Unit) \div 80) * 53

\* mutant: the band starts at 70 instead of 78
ScoreOptimalFrom70(sizeInKB) ==
    LET rangePosition == (sizeInKB - lowerLimit * Unit) \div (upperLimit - lowerLimit)
    IN  70 * Unit + rangePosition * 22

\* Variant B, 100 < sizeInKB <= 128:
\*   rangePosition = (sizeInKB - lowerLimit) / (upperLimit - lowerLimit)
\*   optimizationScore = 78 + rangePosition * 22
ScoreOptimal(sizeInKB) ==
    LET rangePosition == (sizeInKB - lowerLimit * Unit) \div (upperLimit - lowerLimit)
    IN  78 * Unit + rangePosition * 22

\* mutant: the percentage is not clamped over the limit
PercentageBUnclamped(sizeInKB) == (sizeInKB \div upperLimit) * 100

\* Variant B: the if / else-if chain that picks percentageOfLimit
PercentageB(sizeInKB) ==
    IF sizeInKB <= lowerLimit * Unit THEN (sizeInKB \div upperLimit) * 100
    ELSE IF sizeInKB <= upperLimit * Unit THEN (sizeInKB \div upperLimit) * 100
    ELSE 100 * Unit

\* Variant B: the if / else-if chain that picks optimizationScore
OptimizationScore(sizeInKB) ==
    IF sizeInKB <= lowerLimit * Unit
    THEN IF sizeInKB < 5 * Unit THEN ScoreTiny(sizeInKB)
         ELSE IF sizeInKB < 20 * Unit THEN ScoreSmall(sizeInKB)
         ELSE ScoreMedium(sizeInKB)
    ELSE IF sizeInKB <= upperLimit * Unit THEN ScoreOptimal(sizeInKB)
    ELSE 0

ReportB(bytecode) ==
    LET sizeInKB == SizeInKB(bytecode)
    IN  [size |-> sizeInKB,
         percentageOfLimit |-> PercentageB(sizeInKB),
         optimizationScore |-> OptimizationScore(sizeInKB)]

Report(v, bytecode) == IF v = "A" THEN ReportA(bytecode) ELSE ReportB(bytecode)

\* --------------------------------------------------------------- gradient

\* Variant A: getGradientClass(size)
GradientClassA(size) ==
    IF size > 128 * Unit THEN "from-red-500 to-red-700"
    ELSE IF size < 5 * Unit THEN "from-red-400 to-red-300"
    ELSE IF size < 20 * Unit THEN "from-red-300 to-orange-400"
    ELSE IF size < 50 * Unit THEN "from-orange-400 to-yellow-500"
    ELSE IF size < 100 * Unit THEN "from-yellow-500 to-blue-500"
    ELSE IF size < 114 * Unit THEN "from-blue-500 to-green-500"
    ELSE "from-green-500 to-emerald-600"

\* Variant B: getGradientClass(score), which also reads the contractSize state
GradientClassB(score, cs) ==
    IF cs # NullReport /\ cs.size > 128 * Unit THEN "from-red-500 to-red-700"
    ELSE IF score < 10 * Unit THEN "from-red-400 to-red-300"
    ELSE IF score < 25 * Unit THEN "from-red-300 to-orange-400"
    ELSE IF score < 50 * Unit THEN "from-orange-400 to-yellow-500"
    ELSE IF score < 78 * Unit THEN "from-yellow-500 to-blue-500"
    ELSE IF score < 90 * Unit THEN "from-blue-500 to-green-500"
    ELSE "from-green-500 to-emerald-600"

\* ---------------------------------------------------------- recommendation

\* the three paragraphs of the size < 100 block
BelowOptimalMessages(size) ==
    IF size < 100 * Unit
    THEN (IF size < 5 * Unit THEN {"extremely smol"} ELSE {})
         \cup (IF size >= 5 * Unit /\ size < 20 * Unit THEN {"quite smol"} ELSE {})
         \cup (IF size >= 20 * Unit THEN {"smaller than the optimal range"} ELSE {})
    ELSE {}

\* the paragraph of 100 <= size <= 128 (Variant B appends a note from 114 KB on)
OptimalMessages(size) ==
    IF size <= 128 * Unit /\ size >= 100 * Unit THEN {"optimally sized"} ELSE {}

\* Variant A: the messages the Recommendation block renders for a report
RecommendationsA(size) == OptimalMessages(size) \cup BelowOptimalMessages(size)

\* Variant B: the messages the Recommendation block renders for a report
RecommendationsB(size) ==
    (IF size > 128 * Unit THEN {"exceeds the limit"} ELSE {})
    \cup OptimalMessages(size) \cup BelowOptimalMessages(size)

Recommendations(v, size) ==
    IF v = "A" THEN RecommendationsA(size) ELSE RecommendationsB(size)

\* ---------------------------------------------------------------- history

\* mutant: the comparison without toLowerCase
FindIndexExact(prev, address) ==
    LET hits == {i \in 1..Len(prev) : prev[i].address = address}
    IN  IF hits = {} THEN 0 ELSE CHOOSE i \in hits : \A j \in hits : i <= j

\* prev.findIndex(item => item.address.toLowerCase() === address.toLowerCase()),
\* 1-based, 0 for "not found" (JavaScript: 0-based, -1)
FindIndex(prev, address) ==
    LET hits == {i \in 1..Len(prev) : toLowerCase(prev[i].address) = toLowerCase(address)}
    IN  IF hits = {} THEN 0 ELSE CHOOSE i \in hits : \A j \in hits : i <= j

\* Array.prototype.slice(0, n)
Slice(s, n) == SubSeq(s, 1, IF Len(s) < n THEN Len(s) ELSE n)

\* mutant: the new item is added without the slice
AddToHistoryUncapped(prev, historyItem) ==
    LET existingIndex == FindIndex(prev, historyItem.address)
    IN  IF existingIndex > 0
        THEN [prev EXCEPT ![existingIndex] = historyItem]
        ELSE <<historyItem>> \o prev

\* mutant: a re-checked address moves to the front
AddToHistoryMoveToFront(prev, historyItem) ==
    LET existingIndex == FindIndex(prev, historyItem.address)
    IN  IF existingIndex > 0
        THEN <<historyItem>> \o SubSeq(prev, 1, existingIndex - 1)
                             \o SubSeq(prev, existingIndex + 1, Len(prev))
        ELSE Slice(<<historyItem>> \o prev, HistoryLimit)

\* the updater passed to setHistory
AddToHistory(prev, historyItem) ==
    LET existingIndex == FindIndex(prev, historyItem.address)
    IN  IF existingIndex > 0
        THEN [prev EXCEPT ![existingIndex] = historyItem]
        ELSE Slice(<<historyItem>> \o prev, HistoryLimit)

\* JSON.stringify(history): the text of an array of the items
JSONstringify(h) == [json |-> "array", items |-> h]

\* a value of the history state that is not an array: null, an object (or a
\* number or boolean), a string
NotArray(kind) == <<[notArray |-> kind]>>

IsArray(h) == ~(Len(h) = 1 /\ "notArray" \in DOMAIN h[1])

\* history.length > 0: undefined > 0 is false for an object, a non-empty
\* string has a length (history.length of null throws: see RenderThrows)
HasItems(h) == IF IsArray(h) THEN Len(h) > 0 ELSE h[1].notArray = "string"

\* an array element with the fields the history table and the updater read
WellFormedItem(x) == DOMAIN x = {"address", "data", "timestamp"}

\* JSON.parse(savedHistory) of a text it does not throw on
JSONparse(text) ==
    IF text.json = "array" THEN text.items ELSE NotArray(text.json)

\* the load effect: the history state once it has run.
\*   if (savedHistory) { try { setHistory(JSON.parse(savedHistory)) } catch {} }
LoadEffect(item) ==
    IF item = Absent \/ item.json = "empty" THEN <<>>
    ELSE IF item.json = "unparseable" THEN <<>>
    ELSE JSONparse(item)

\* rendering with this history throws: history.length of null, history.map
\* of a string, item.data.size of an element without data
RenderThrows(h) ==
    IF IsArray(h) THEN \E k \in 1..Len(h) : ~WellFormedItem(h[k])
    ELSE h[1].notArray \in {"null", "string"}

\* the setHistory updater throws: prev.findIndex is not a function
UpdaterThrows(prev) == ~IsArray(prev)

\* the save effect: runs after every change of history
SaveEffect(h, item) == IF HasItems(h) THEN JSONstringify(h) ELSE item

\* ------------------------------------------------------------- validation

\* mutant: only too short an address is refused
ValidAddressTooShortOnly(address) == address.len # 0 /\ address.len >= AddressLength

\* address && address.length === 42
ValidAddress(address) == address.len # 0 /\ address.len = AddressLength

\* mutant: the button is never disabled
CheckButtonNeverDisabled == FALSE

\* disabled={isLoading} on the Check Size button
CheckButtonDisabled == isLoading

\* the synchronous part of getContractSize, up to the await: what it does
\* with the address
BeforeAwait(client, address) ==
    IF ~client THEN "no-client"
    ELSE IF ~ValidAddress(address) THEN "invalid-address"
    ELSE "getCode"

\* ------------------------------------------------------------ environment

ValidAddr(i, up) == [id |-> i, upper |-> up, len |-> AddressLength]

\* "" , "0x123" and a 43-character string
BadAddresses == {EmptyAddress, [id |-> 0, upper |-> FALSE, len |-> 5],
                 [id |-> 0, upper |-> FALSE, len |-> AddressLength + 1]}

\* the interactive specification: a few addresses in lower case, the first of
\* them in upper case too
UiAddresses ==
    BadAddresses \cup {ValidAddr(i, FALSE) : i \in 1..NumIds} \cup {ValidAddr(1, TRUE)}

\* no result, "0x", 24 KB of code, 130 KB of code
UiBytecodes == {0, 2, 2 + 2 * (24 * 1024), 2 + 2 * (130 * 1024)}

\* the history-cap specification: one more address than the history holds
CapIds == HistoryLimit + 1
CapAddresses == {EmptyAddress} \cup {ValidAddr(i, FALSE) : i \in 1..CapIds}
CapBytecodes == {2, 2 + 2 * (24 * 1024)}

\* the scoring specification: every whole KB up to OverKB over the limit, and
\* the byte counts within EdgeDelta of each band edge
BandEdgesKB == {0, 5, 20, 50, 100, 114, 128}
ScoreByteCounts ==
    {n \in {k * 1024 + d : k \in BandEdgesKB, d \in (0 - EdgeDelta)..EdgeDelta} : n > 0}
    \cup {k * 1024 : k \in 1..(upperLimit + OverKB)}
ScoreAddresses == {EmptyAddress, ValidAddr(1, FALSE)}
ScoreBytecodes == {2} \cup {2 + 2 * n : n \in ScoreByteCounts}

\* the persistence specifications: the addresses typed, an entry the save
\* effect has written in an earlier session, the texts it has left behind,
\* and texts that are not the serialization of an array of entries
StoredAddresses == {EmptyAddress} \cup {ValidAddr(i, FALSE) : i \in 1..NumIds}

SavedEntry(i) ==
    [address |-> ValidAddr(i, FALSE), data |-> ReportA(2 + 2 * (24 * 1024)),
     timestamp |-> 0]

WellFormedTexts ==
    {JSONstringify(<<>>),
     JSONstringify(<<SavedEntry(1)>>),
     JSONstringify(<<SavedEntry(NumIds), SavedEntry(1)>>)}

CorruptTexts ==
    {[json |-> "unparseable"], [json |-> "empty"], [json |-> "null"],
     [json |-> "object"], [json |-> "string"],
     JSONstringify(<<[address |-> ValidAddr(1, FALSE)]>>)}

\* ------------------------------------------------------------------- init

\* the state after the first render and the mount effects, nothing stored
InitComponent ==
    /\ now = 0
    /\ contractAddress = EmptyAddress
    /\ contractSize = NullReport
    /\ isLoading = FALSE
    /\ error = NoError
    /\ history = <<>>
    /\ showAnimation = FALSE
    /\ stored = Absent
    /\ inflight = <<>>
    /\ phase = "mounted"

Init ==
    /\ variant \in {"A", "B"}
    /\ publicClient \in BOOLEAN
    /\ addresses = UiAddresses
    /\ bytecodes = UiBytecodes
    /\ InitComponent

InitCap ==
    /\ variant = "A"
    /\ publicClient = TRUE
    /\ addresses = CapAddresses
    /\ bytecodes = CapBytecodes
    /\ InitComponent

InitScore ==
    /\ variant = "B"
    /\ publicClient = TRUE
    /\ addresses = ScoreAddresses
    /\ bytecodes = ScoreBytecodes
    /\ InitComponent

\* the persistence specifications: Variant A with a provider, not yet mounted,
\* the stored item drawn from items
InitStored(items) ==
    /\ variant = "A"
    /\ publicClient = TRUE
    /\ addresses = StoredAddresses
    /\ bytecodes = UiBytecodes
    /\ now = 0
    /\ contractAddress = EmptyAddress
    /\ contractSize = NullReport
    /\ isLoading = FALSE
    /\ error = NoError
    /\ history = <<>>
    /\ showAnimation = FALSE
    /\ stored \in items
    /\ inflight = <<>>
    /\ phase = "unmounted"

InitPersist == InitStored({Absent} \cup WellFormedTexts)

InitCorrupt == InitStored(CorruptTexts)

\* ---------------------------------------------------------------- actions

env == <<variant, publicClient, addresses, bytecodes>>

RemoveAt(s, i) == SubSeq(s, 1, i - 1) \o SubSeq(s, i + 1, Len(s))

\* onChange={e => setContractAddress(e.target.value)}
SetContractAddress(a) ==
    /\ phase = "mounted"
    /\ contractAddress' = a
    /\ UNCHANGED <<env, now, contractSize, isLoading, error, history,
                   showAnimation, stored, inflight, phase>>

\* mutant: the catch block does not clear the report
CatchFinallyKeepsReport(message) ==
    /\ error' = (IF message = "" THEN FetchErrorMessage ELSE message)
    /\ UNCHANGED contractSize
    /\ showAnimation' = FALSE
    /\ isLoading' = FALSE

\* catch (err) { setError(err.message || "Error fetching contract bytecode");
\*               setContractSize(null); setShowAnimation(false) }
\* finally { setIsLoading(false) }
CatchFinally(message) ==
    /\ error' = (IF message = "" THEN FetchErrorMessage ELSE message)
    /\ contractSize' = NullReport
    /\ showAnimation' = FALSE
    /\ isLoading' = FALSE

\* the click on Check Size: getContractSize(contractAddress) up to its await,
\* or to its end when it throws before the await
GetContractSize ==
    /\ phase = "mounted"
    /\ ~CheckButtonDisabled
    /\ LET address == contractAddress
           step == BeforeAwait(publicClient, address)
       IN  IF step = "getCode"
           THEN /\ isLoading' = TRUE
                /\ error' = NoError
                /\ inflight' = Append(inflight, [address |-> address])
                /\ UNCHANGED <<contractSize, showAnimation>>
           ELSE /\ CatchFinally(IF step = "no-client" THEN NoClientMessage
                                ELSE InvalidAddressMessage(variant))
                /\ UNCHANGED inflight
    /\ UNCHANGED <<env, now, contractAddress, history, stored, phase>>

\* the rest of the try block once getCode has returned bytecode
AfterAwait(address, bytecode) ==
    IF ~HasCode(bytecode)
    THEN /\ CatchFinally(NoContractMessage)
         /\ UNCHANGED <<history, stored>>
    ELSE LET sizeData == Report(variant, bytecode)
             historyItem == [address |-> address, data |-> sizeData, timestamp |-> now]
         IN  /\ contractSize' = sizeData
             /\ IF variant = "A"
                THEN /\ history' = AddToHistory(history, historyItem)
                     /\ stored' = SaveEffect(history', stored)
                     /\ showAnimation' = TRUE
                ELSE UNCHANGED <<history, stored, showAnimation>>
             /\ isLoading' = FALSE
             /\ UNCHANGED error

\* the component is gone: its state is discarded, and what its outstanding
\* calls do when they settle is ignored
Discarded ==
    /\ contractAddress' = EmptyAddress
    /\ contractSize' = NullReport
    /\ isLoading' = FALSE
    /\ error' = NoError
    /\ history' = <<>>
    /\ showAnimation' = FALSE
    /\ inflight' = <<>>

\* the provider answers the i-th outstanding getCode call with bytecode; the
\* render that follows throws when the setHistory updater does
GetCodeReturns(i, bytecode) ==
    /\ i \in 1..Len(inflight)
    /\ IF variant = "A" /\ HasCode(bytecode) /\ UpdaterThrows(history)
       THEN /\ phase' = "crashed"
            /\ Discarded
            /\ UNCHANGED <<env, now, stored>>
       ELSE /\ inflight' = RemoveAt(inflight, i)
            /\ AfterAwait(inflight[i].address, bytecode)
            /\ UNCHANGED <<env, now, contractAddress, phase>>

\* the i-th outstanding getCode call throws an Error with this message
GetCodeThrows(i, message) ==
    /\ i \in 1..Len(inflight)
    /\ inflight' = RemoveAt(inflight, i)
    /\ CatchFinally(message)
    /\ UNCHANGED <<env, now, contractAddress, history, stored, phase>>

\* mutant: the error of an earlier failed check is left on screen
loadFromHistoryKeepsError(i) ==
    /\ variant = "A"
    /\ phase = "mounted"
    /\ HasItems(history)
    /\ i \in 1..Len(history)
    /\ contractAddress' = history[i].address
    /\ contractSize' = history[i].data
    /\ showAnimation' = TRUE
    /\ UNCHANGED <<env, now, isLoading, error, history, stored, inflight, phase>>

\* Variant A: the Load button of the i-th history row
loadFromHistory(i) ==
    /\ variant = "A"
    /\ phase = "mounted"
    /\ HasItems(history)
    /\ i \in 1..Len(history)
    /\ contractAddress' = history[i].address
    /\ contractSize' = history[i].data
    /\ error' = NoError
    /\ showAnimation' = TRUE
    /\ UNCHANGED <<env, now, isLoading, history, stored, inflight, phase>>

\* mutant: the stored item is not removed
clearHistoryKeepsItem ==
    /\ variant = "A"
    /\ phase = "mounted"
    /\ HasItems(history)
    /\ history' = <<>>
    /\ UNCHANGED stored
    /\ UNCHANGED <<env, now, contractAddress, contractSize, isLoading, error,
                   showAnimation, inflight, phase>>

\* Variant A: the Clear History button, rendered when the history is not empty
clearHistory ==
    /\ variant = "A"
    /\ phase = "mounted"
    /\ HasItems(history)
    /\ history' = <<>>
    /\ stored' = Absent
    /\ UNCHANGED <<env, now, contractAddress, contractSize, isLoading, error,
                   showAnimation, inflight, phase>>

\* Variant A is mounted (the page is loaded, or loaded again after a crash):
\* first render, load effect, the render and the save effect that follow
Mount ==
    /\ variant = "A"
    /\ phase \in {"unmounted", "crashed"}
    /\ LET loaded == LoadEffect(stored)
       IN  IF RenderThrows(loaded)
           THEN /\ phase' = "crashed"
                /\ UNCHANGED <<history, stored>>
           ELSE /\ phase' = "mounted"
                /\ history' = loaded
                /\ stored' = SaveEffect(loaded, stored)
    /\ UNCHANGED <<env, now, contractAddress, contractSize, isLoading, error,
                   showAnimation, inflight>>

\* the component is unmounted (the user leaves or reloads the page)
Unmount ==
    /\ phase = "mounted"
    /\ phase' = "unmounted"
    /\ Discarded
    /\ UNCHANGED <<env, now, stored>>

\* time passes
Tick ==
    /\ now < MaxNow
    /\ now' = now + 1
    /\ UNCHANGED <<env, contractAddress, contractSize, isLoading, error, history,
                   showAnimation, stored, inflight, phase>>

\* the history-cap specification: the user submits the addresses 1, 2, ...,
\* CapIds, 1, ... in this order, or one that is already in the history
NextFreshId == IF history = <<>> THEN 1 ELSE (history[1].address.id % CapIds) + 1

TypeInOrder(a) ==
    /\ \/ FindIndex(history, a) > 0
       \/ a.id = NextFreshId
       \/ ~ValidAddress(a)
    /\ SetContractAddress(a)

\* ---------------------------------------------------------- specifications

Typed == \E a \in addresses : SetContractAddress(a)
TypedInOrder == \E a \in addresses : TypeInOrder(a)
Returned == \E i \in 1..Len(inflight), b \in bytecodes : GetCodeReturns(i, b)
Threw == \E i \in 1..Len(inflight), m \in ProviderMessages : GetCodeThrows(i, m)
Loaded == \E i \in 1..Len(history) : loadFromHistory(i)

Next ==
    \/ Typed
    \/ GetContractSize
    \/ Returned
    \/ Threw
    \/ Loaded
    \/ clearHistory
    \/ Tick

Spec == Init /\ [][Next]_vars

NextCap ==
    \/ TypedInOrder
    \/ GetContractSize
    \/ Returned
    \/ Threw
    \/ Loaded

SpecCap == InitCap /\ [][NextCap]_vars

NextScore ==
    \/ Typed
    \/ GetContractSize
    \/ Returned
    \/ Threw

SpecScore == InitScore /\ [][NextScore]_vars

NextPersist ==
    \/ Mount
    \/ Unmount
    \/ Typed
    \/ GetContractSize
    \/ Returned
    \/ Threw
    \/ Loaded
    \/ clearHistory
    \/ Tick

SpecPersist == InitPersist /\ [][NextPersist]_vars

SpecCorrupt == InitCorrupt /\ [][NextPersist]_vars

\* ------------------------------------------------------------------ claims

\* the address is in the history, letter case ignored
Present(h, a) == \E k \in 1..Len(h) : toLowerCase(h[k].address) = toLowerCase(a)

\* this step ends a check of Variant A with a report
SucceededA == variant = "A" /\ Len(inflight') < Len(inflight) /\ contractSize' # NullReport

\* C1. History dedup (Variant A): no two history entries have addresses that are
\* equal ignoring case; a successful check of an address already present
\* (ignoring case) leaves the history length unchanged, and the single entry
\* for that address carries the address, report and timestamp of that check.
C1_HistoryDedup ==
    /\ [](\A i, j \in 1..Len(history) :
            i # j => toLowerCase(history[i].address) # toLowerCase(history[j].address))
    /\ [][(SucceededA /\ Present(history, inflight[1].address)) =>
            /\ Len(history') = Len(history)
            /\ \A k \in 1..Len(history) :
                 toLowerCase(history[k].address) = toLowerCase(inflight[1].address)
                 => history'[k] = [address |-> inflight[1].address,
                                   data |-> contractSize',
                                   timestamp |-> now]
            /\ Cardinality({k \in 1..Len(history') :
                 toLowerCase(history'[k].address) = toLowerCase(inflight[1].address)}) = 1
         ]_vars

\* an address first checked in lower case, re-checked later in upper case with
\* another result, behind a second address
C1_Witness ==
    /\ Len(history) = 2
    /\ history[2].address.upper
    /\ history[2].timestamp > history[1].timestamp
    /\ history[2].data # history[1].data
    /\ stored = JSONstringify(history)

\* C2. History cap (Variant A): the history never holds more than 10 entries;
\* once 11 pairwise distinct addresses (1, 2, ..., 11 in this order) have been
\* checked successfully it holds exactly the 10 most recent, newest first
\* (11, 10, ..., 2), and the first-submitted address 1 is gone.
C2_HistoryCap ==
    /\ Len(history) <= HistoryLimit
    /\ (Len(history) > 0 /\ history[1].address.id = CapIds) =>
          /\ Len(history) = HistoryLimit
          /\ \A i \in 1..Len(history) : history[i].address.id = CapIds + 1 - i
          /\ ~Present(history, ValidAddr(1, FALSE))

\* the eleventh address has just been checked
C2_Witness ==
    /\ Len(history) = HistoryLimit
    /\ history[1].address.id = CapIds
    /\ contractSize = history[1].data
    /\ ~isLoading

MostRecentFirst(h) == \A i, j \in 1..Len(h) : i < j => h[i].timestamp >= h[j].timestamp

\* C3 as stated. History ordering (Variant A): in every reachable state, for
\* any two positions i < j the entry at i was observed no earlier than the
\* entry at j, re-checks of an address already in the history included.
C3_MostRecentFirst == MostRecentFirst(history)

\* C3 as amended. The history is ordered by first insertion: a successful check
\* of an address not in the history puts its entry first, stamped no earlier
\* than any other entry, the others following in their previous order (so a
\* history that is most-recent-first stays so); a successful re-check of an
\* address in the history replaces the entry where it stands and moves nothing.
C3_InsertionOrder ==
    /\ [](\A k \in 1..Len(history) : history[k].timestamp <= now)
    /\ [][SucceededA =>
            IF Present(history, inflight[1].address)
            THEN /\ Len(history') = Len(history)
                 /\ \A k \in 1..Len(history) :
                      toLowerCase(history'[k].address) = toLowerCase(history[k].address)
            ELSE /\ Len(history') > 0
                 /\ history'[1].address = inflight[1].address
                 /\ history'[1].timestamp = now
                 /\ \A k \in 2..Len(history') :
                      history'[k] = history[k - 1] /\ history'[1].timestamp >= history'[k].timestamp
                 /\ (MostRecentFirst(history) => MostRecentFirst(history'))
         ]_vars

\* the older of two entries was re-checked: it stays second and is now the newer
C3_Witness ==
    /\ Len(history) = 2
    /\ history[2].timestamp > history[1].timestamp
    /\ contractSize = history[2].data
    /\ contractAddress = history[2].address

\* this step is a click whose check fails before the provider is called
FailedBeforeAwait ==
    GetContractSize /\ BeforeAwait(publicClient, contractAddress) # "getCode"

\* this step ends an outstanding check with a failure: getCode threw, or
\* returned no bytecode
FailedAfterAwait ==
    \/ \E i \in 1..Len(inflight), m \in ProviderMessages : GetCodeThrows(i, m)
    \/ \E i \in 1..Len(inflight), b \in bytecodes : ~HasCode(b) /\ GetCodeReturns(i, b)

\* C4. Every failed check, whatever the cause (no public client, address
\* failing the length check, empty or absent bytecode, the provider call
\* throwing), ends in the same state: the error message is set, the current
\* report is null even if one was displayed before, and no report is produced
\* (the history and the stored history are unchanged).
C4_FailedCheck ==
    [][(FailedBeforeAwait \/ FailedAfterAwait) =>
          /\ error' # NoError
          /\ error' \in {NoClientMessage, InvalidAddressMessage(variant),
                         NoContractMessage, FetchErrorMessage} \cup ProviderMessages
          /\ error' # ""
          /\ contractSize' = NullReport
          /\ ~isLoading'
          /\ history' = history
          /\ stored' = stored
      ]_vars

\* a check failed after an earlier one had succeeded
C4_Witness ==
    /\ error = FetchErrorMessage
    /\ contractSize = NullReport
    /\ Len(history) = 1
    /\ ~isLoading

\* C5 as stated. For any check invoked with an address whose length is not 42
\* (the empty address included) the check ends with the InvalidAddress error
\* and getCode is not called; getCode is called only for addresses of length
\* 42 and only when a public client is available.
C5_InvalidAddressFirst ==
    /\ [](\A k \in 1..Len(inflight) :
            inflight[k].address.len = AddressLength /\ publicClient)
    /\ [][(GetContractSize /\ contractAddress.len # AddressLength) =>
            /\ inflight' = inflight
            /\ error' = InvalidAddressMessage(variant)
         ]_vars

\* C5 as amended. For any check invoked with an address whose length is not 42
\* getCode is not called and the check ends with an error: the InvalidAddress
\* error when a public client is available, the ClientUnavailable error when
\* none is (the client is looked for first); getCode is called only for
\* addresses of length 42 and only when a public client is available.
C5_ValidationBeforeGetCode ==
    /\ [](\A k \in 1..Len(inflight) :
            inflight[k].address.len = AddressLength /\ publicClient)
    /\ [][(GetContractSize /\ contractAddress.len # AddressLength) =>
            /\ inflight' = inflight
            /\ ~isLoading'
            /\ contractSize' = NullReport
            /\ error' = (IF publicClient THEN InvalidAddressMessage(variant)
                                         ELSE NoClientMessage)
         ]_vars

\* "0x123" was checked with a client available
C5_Witness ==
    /\ publicClient
    /\ contractAddress.len = 5
    /\ error = InvalidAddressMessage(variant)
    /\ inflight = <<>>
    /\ ~isLoading

\* C6. Single request in flight: isLoading is true exactly while a check is
\* in progress, the check trigger is enabled exactly when isLoading is false
\* (so again after every completed check), and at no point are two getCode
\* calls outstanding.
C6_SingleFlight ==
    /\ Len(inflight) <= 1
    /\ isLoading <=> Len(inflight) = 1
    /\ (ENABLED GetContractSize) <=> ~isLoading

\* a second check is in progress while the report of the first is displayed
C6_Witness ==
    /\ isLoading
    /\ Len(inflight) = 1
    /\ contractSize # NullReport
    /\ ~(ENABLED GetContractSize)

\* two reports of Variant B follow each other on the display, both within the limit
TwoReportsWithinLimit ==
    /\ variant = "B"
    /\ contractSize # NullReport /\ contractSize' # NullReport
    /\ contractSize.size <= 128 * Unit /\ contractSize'.size <= 128 * Unit

\* C7. The Variant B optimization score is monotonically non-decreasing in size
\* over [0,128] KB: of two reports within the limit the one of the larger (or
\* equal) byte count has the larger (or equal) score; and score(0) = 5.
C7_ScoreMonotone ==
    /\ [](OptimizationScore(0) = 5 * Unit)
    /\ [][(TwoReportsWithinLimit /\ contractSize.size <= contractSize'.size) =>
            contractSize.optimizationScore <= contractSize'.optimizationScore
         ]_vars

\* the report of exactly 128 KB, the top of the range
C7_Witness ==
    /\ contractSize # NullReport
    /\ contractSize.size = 128 * Unit
    /\ contractSize.optimizationScore = 100 * Unit

Abs(x) == IF x < 0 THEN 0 - x ELSE x

\* C8. The Variant B optimization score has no jump at the band boundaries: at
\* 5, 20 and 100 KB the formula of the band ending there and the formula of
\* the band starting there both give 10, 25 and 78, the report of exactly such
\* a size carries that score, and the scores of two reports within the limit
\* differ by no more than their sizes in KB do.
C8_ScoreContinuous ==
    /\ [](/\ ScoreTiny(5 * Unit) = 10 * Unit /\ ScoreSmall(5 * Unit) = 10 * Unit
          /\ ScoreSmall(20 * Unit) = 25 * Unit /\ ScoreMedium(20 * Unit) = 25 * Unit
          /\ ScoreMedium(100 * Unit) = 78 * Unit /\ ScoreOptimal(100 * Unit) = 78 * Unit)
    /\ [](contractSize # NullReport =>
            /\ contractSize.size = 5 * Unit => contractSize.optimizationScore = 10 * Unit
            /\ contractSize.size = 20 * Unit => contractSize.optimizationScore = 25 * Unit
            /\ contractSize.size = 100 * Unit => contractSize.optimizationScore = 78 * Unit)
    /\ [][TwoReportsWithinLimit =>
            Abs(contractSize'.optimizationScore - contractSize.optimizationScore)
               <= Abs(contractSize'.size - contractSize.size)
         ]_vars

\* the report of exactly 100 KB, where the last two bands meet
C8_Witness ==
    /\ contractSize # NullReport
    /\ contractSize.size = 100 * Unit
    /\ contractSize.optimizationScore = 78 * Unit

\* C9. Variant B over-limit result: every report of a size over 128 KB has
\* optimizationScore = 0 and percentageOfLimit = 100 exactly, however far over;
\* every report of a size up to 128 KB has its score in [5,100] and its
\* percentage in [0,100].
C9_OverLimit ==
    (variant = "B" /\ contractSize # NullReport) =>
        IF contractSize.size > 128 * Unit
        THEN /\ contractSize.optimizationScore = 0
             /\ contractSize.percentageOfLimit = 100 * Unit
        ELSE /\ 5 * Unit <= contractSize.optimizationScore
             /\ contractSize.optimizationScore <= 100 * Unit
             /\ 0 <= contractSize.percentageOfLimit
             /\ contractSize.percentageOfLimit <= 100 * Unit

\* a report more than a KB over the limit
C9_Witness ==
    /\ contractSize # NullReport
    /\ contractSize.size > 129 * Unit
    /\ contractSize.optimizationScore = 0
    /\ contractSize.percentageOfLimit = 100 * Unit

\* C10. Gradient band selection is the same step function of size in both
\* variants: for every displayed report of Variant B the class chosen from its
\* score equals the class Variant A chooses from its size.
C10_SameGradient ==
    (variant = "B" /\ contractSize # NullReport) =>
        GradientClassB(contractSize.optimizationScore, contractSize)
            = GradientClassA(contractSize.size)

\* the message the bands of the claim select for a size
SelectedRecommendation(size) ==
    IF size > 128 * Unit THEN "exceeds the limit"
    ELSE IF size >= 100 * Unit THEN "optimally sized"
    ELSE IF size < 5 * Unit THEN "extremely smol"
    ELSE IF size < 20 * Unit THEN "quite smol"
    ELSE "smaller than the optimal range"

\* C11. Recommendation selection is total and exclusive: for every displayed
\* report, in each variant, exactly one recommendation message is shown, the
\* one its size selects: exceeds-limit over 128 KB, optimal from 100 to 128 KB,
\* and one of three below-optimal messages under 5, under 20 and under 100 KB.
C11_OneRecommendation ==
    contractSize # NullReport =>
        Recommendations(variant, contractSize.size)
            = {SelectedRecommendation(contractSize.size)}

\* the stored text is not the serialization of an array of history entries
IsCorrupt(text) ==
    /\ text # Absent
    /\ ~(text.json = "array"
          /\ \A k \in 1..Len(text.items) : WellFormedItem(text.items[k]))

\* C12. Corrupt persisted history is treated as empty (Variant A): if at mount
\* the value stored under the history key is anything other than a serialized
\* array of history entries, the in-memory history after mount is the empty
\* sequence and no error is shown to the user (the component is mounted, not
\* crashed).
C12_CorruptTreatedAsEmpty ==
    [][(Mount /\ IsCorrupt(stored)) =>
          (phase' = "mounted" /\ history' = <<>> /\ error' = NoError)]_vars

\* C13. Error and report are mutually exclusive: in every reachable state of
\* either variant, under any interleaving of starting a check, the provider
\* call completing or failing, editing the address, load-from-history and
\* clear-history, the error message and the current report are never both
\* non-null.
C13_ErrorOrReport == ~(error # NoError /\ contractSize # NullReport)

\* a report was loaded from the history while a check is in flight
C13_Witness ==
    /\ variant = "A"
    /\ Len(inflight) = 1
    /\ isLoading
    /\ contractSize # NullReport
    /\ error = NoError

====
